---- MODULE Spec2Model ----
(***************************************************************************)
(* A state-machine model of gobigger.server.Server and FoodManager.        *)
(*                                                                         *)
(* Time is counted in state-ticks: state_tick_duration (1/state_tick_per_  *)
(* second) is the unit, so last_time = n stands for n * state_tick_        *)
(* duration and match_time seconds are match_time * state_tick_per_second  *)
(* units.  Sizes are whole numbers (size = radius * radius).  Positions    *)
(* and velocities are not modelled: which balls overlap in a state-tick is *)
(* an input of that tick.  Ball names (uuid.uuid1()) are drawn from a      *)
(* counter, so a name is never used twice.                                 *)
(***************************************************************************)
EXTENDS Integers, Sequences, FiniteSets, TLC

\* ---------------------------------------------------------------- bounds
\* Configurations explored (the program takes any; these keep TLC finite).
MaxPlayers == 2
MaxRate == 2
MaxMatchTime == 1
\* Names handed out by uuid.uuid1() in one run.
MaxNames == 8
\* Seeds given to Server.seed, and balls spawned by each of two seeded servers.
MaxSeed == 2
MaxSpawn == 3
\* States of the generator behind random.uniform.
RandomStates == 8
\* Rates, refresh times (seconds) and refreshes of a food manager stepped on
\* its own with the float duration 1 / state_tick_per_second.
MaxClockRate == 10
MaxClockRefreshTime == 2
MaxClockRefreshes == 2
\* Overlapping pairs reported by the collision detection in one state-tick.
MaxOverlaps == 1
\* Fusions PlayerManager.adjust performs in one state-tick.
MaxFusions == 1

\* food_manager settings (server.py default_config, scaled down)
FoodNumInit == 1
FoodNumMax == 2
FoodRefreshTime == 1
FoodRefreshNum == 1
FoodRadiusMin == 1
FoodRadiusMax == 1
\* thorns_manager settings
ThornsNumInit == 1
ThornsNumMax == 1
ThornsRefreshTime == 1
ThornsRefreshNum == 1
ThornsRadiusMin == 1
ThornsRadiusMax == 2
\* player_manager ball settings
RadiusInit == 2
RadiusMin == 1
PartNumMax == 3
OnThornsPartNum == 2
OnThornsPartRadiusMax == 1
SplitRadiusMin == 2
EjectRadiusMin == 2
\* spore_manager ball settings
SporeRadius == 1

VARIABLES
    cfg,                 \* Server.cfg: the fields __init__ reads
    last_time,           \* Server.last_time, in state-ticks
    end_flag,            \* Server._end_flag: "unset" before start()
    name_count,          \* names handed out so far
    food_balls,          \* FoodManager.balls
    refresh_time_count,  \* FoodManager.refresh_time_count, in state-ticks
    thorns_balls,        \* ThornsManager.balls
    thorns_time_count,   \* ThornsManager.refresh_time_count
    spore_balls,         \* SporeManager.balls
    clone_balls,         \* the CloneBalls of PlayerManager's players
    pc,                  \* "idle", or "loop" inside Server.step's for loop
    i,                   \* the loop variable of Server.step (0 outside the loop)
    actions,             \* the actions argument of the running step call
    ret,                 \* what the last step call returned ("none" before)
    call,                \* history of the last step call
    tick,                \* history of the last state-tick
    trace,               \* whether tick keeps the detailed history of a tick
    twin,                \* two servers given the same seed, side by side
    food_clock           \* a FoodManager stepped with the float duration

vars == <<cfg, last_time, end_flag, name_count, food_balls, refresh_time_count,
          thorns_balls, thorns_time_count, spore_balls, clone_balls,
          pc, i, actions, ret, call, tick, trace, twin, food_clock>>

\* ---------------------------------------------------------------- helpers
Min(a, b) == IF a < b THEN a ELSE b

RECURSIVE SumSizes(_)
SumSizes(S) ==
    IF S = {} THEN 0
    ELSE LET b == CHOOSE x \in S : TRUE IN b.size + SumSizes(S \ {b})

\* The names of a set in insertion order: a dict keeps insertion order and
\* names are handed out in increasing order.
RECURSIVE InOrder(_)
InOrder(N) ==
    IF N = {} THEN <<>>
    ELSE LET n == CHOOSE x \in N : \A y \in N : x <= y
         IN <<n>> \o InOrder(N \ {n})

Range(s) == {s[j] : j \in DOMAIN s}

\* The first n elements of s (none when n <= 0): range(n) over the draws.
Take(s, n) == SubSeq(s, 1, Min(n, Len(s)))

\* The subsets of S with at most k elements.
RECURSIVE SubsetsUpTo(_, _)
SubsetsUpTo(S, k) ==
    IF k <= 0 THEN {{}}
    ELSE LET less == SubsetsUpTo(S, k - 1)
         IN less \cup {T \cup {x} : T \in less, x \in S}

\* ---------------------------------------------------------------- config
\* Server.__init__: the derived tick settings.
state_tick_per_action_tick == cfg.state_tick_per_second \div cfg.action_tick_per_second

\* match_time in state-ticks.
MatchTicks == cfg.match_time * cfg.state_tick_per_second

Configs ==
    {c \in [team_num : 1..MaxPlayers, player_num_per_team : 1..MaxPlayers,
            match_time : 1..MaxMatchTime,
            state_tick_per_second : 1..MaxRate,
            action_tick_per_second : 1..MaxRate] :
        c.team_num * c.player_num_per_team <= MaxPlayers}

\* PlayerManager: players are numbered 0 .. team_num * player_num_per_team - 1
\* and player p belongs to team p \div player_num_per_team.
Players == 0 .. (cfg.team_num * cfg.player_num_per_team - 1)
TeamOf(p) == p \div cfg.player_num_per_team

\* ---------------------------------------------------------------- balls
FoodBall(n, s) ==
    [name |-> n, kind |-> "food", size |-> s, owner |-> -1, is_remove |-> FALSE]
ThornsBall(n, s) ==
    [name |-> n, kind |-> "thorns", size |-> s, owner |-> -1, is_remove |-> FALSE]
SporeBall(n) ==
    [name |-> n, kind |-> "spore", size |-> SporeRadius * SporeRadius, owner |-> -1,
     is_remove |-> FALSE]
CloneBall(n, s, p) ==
    [name |-> n, kind |-> "clone", size |-> s, owner |-> p, is_remove |-> FALSE]

\* random.uniform(radius_min, radius_max) ** 2, for whole radii.
FoodSizes == {r * r : r \in FoodRadiusMin..FoodRadiusMax}
ThornsSizes == {r * r : r \in ThornsRadiusMin..ThornsRadiusMax}

\* ------------------------------------------------ the state inside a tick
\* obj: every ball object referenced in this tick (removed ones included), by
\* name;
\* food, thorns, spores, clones: the names each manager holds;
\* moving, total: moving_balls and total_balls; err: an exception was raised;
\* graze: the overlapping clone/thorn pairs in which the thorn's center lies
\* outside the clone.
\* History of the tick (the parts marked * only when trace is on): acted*, for each player whose action was applied, its
\* type, the cells and the spores the action added and whether player.move
\* was called; log, the eat calls in order; skipped, the removed
\* balls that came up again in a pair or as the moving ball; mass_before and
\* mass_after, the sizes held before and after the collision phase; zero, the
\* players the collision phase left without a cell.
\* What the collision phase of a tick was given, kept when trace is set: the
\* balls of moving_balls and of total_balls as they were when
\* collision_detection.solve was called, the overlapping pairs, the names handed out by then, and the
\* names handed out when the last rule had been applied.
NoDetect == [moving |-> <<>>, total |-> <<>>, overlaps |-> {}, names |-> 0, resolved |-> 0]

World ==
    [obj |-> LET all == food_balls \cup thorns_balls \cup spore_balls \cup clone_balls
             IN [n \in {b.name : b \in all} |-> CHOOSE b \in all : b.name = n],
     food |-> {b.name : b \in food_balls},
     thorns |-> {b.name : b \in thorns_balls},
     spores |-> {b.name : b \in spore_balls},
     clones |-> {b.name : b \in clone_balls},
     refresh_time_count |-> refresh_time_count,
     thorns_time_count |-> thorns_time_count,
     names |-> name_count,
     moving |-> <<>>, total |-> <<>>, graze |-> {}, err |-> FALSE, log |-> <<>>,
     skipped |-> {}, acted |-> <<>>, trace |-> trace,
     mass_before |-> 0, mass_after |-> 0, zero |-> {}, detect |-> NoDetect,
     spore_calls |-> {}]

Get(w, n) == w.obj[n]
Put(w, b) ==
    IF b.name \in DOMAIN w.obj THEN [w EXCEPT !.obj[b.name] = b]
    ELSE [w EXCEPT !.obj = @ @@ (b.name :> b)]
SetSize(w, n, s) == Put(w, [Get(w, n) EXCEPT !.size = s])
\* BaseBall.remove: the ball's removed flag.
BallRemove(w, n) == Put(w, [Get(w, n) EXCEPT !.is_remove = TRUE])
Held(w, N) == {w.obj[n] : n \in N}
\* The balls the managers hold, and the sum of their sizes.
Live(w) == Held(w, w.food \cup w.thorns \cup w.spores \cup w.clones)
Mass(w) == SumSizes(Live(w))

\* ------------------------------------------------------------ FoodManager
\* add_balls: self.balls[ball.name] = ball
FoodAddBalls(w, b) == [Put(w, b) EXCEPT !.food = @ \cup {b.name}]

\* spawn_ball with the size drawn by random.uniform: returns the world with
\* the name taken; the ball is FoodBall(w.names + 1, s).
FoodSpawnBall(w, s) == FoodAddBalls([w EXCEPT !.names = @ + 1], FoodBall(w.names + 1, s))

\* todo_num of refresh.
FoodTodoNum(w) == Min(FoodRefreshNum, FoodNumMax - Cardinality(w.food))

\* for _ in range(n): self.add_balls(self.spawn_ball()), sizes[j] the j-th draw.
RECURSIVE FoodSpawnMany(_, _)
FoodSpawnMany(w, sizes) ==
    IF sizes = <<>> THEN w
    ELSE FoodSpawnMany(FoodSpawnBall(w, Head(sizes)), Tail(sizes))

\* refresh; sizes are the draws random.uniform would return, in order.
FoodRefresh(w, sizes) == FoodSpawnMany(w, Take(sizes, FoodTodoNum(w)))

\* remove_balls for a single ball: nothing unless it is a FoodBall; the flag
\* is set before the del, which raises KeyError for a name the dict lacks.
\* A remove_balls that sets the flag and leaves the ball in the dict.
FoodRemoveBallsFlagOnly(w, n) ==
    IF Get(w, n).kind # "food" THEN w ELSE BallRemove(w, n)

FoodRemoveBalls(w, n) ==
    IF Get(w, n).kind # "food" THEN w
    ELSE LET w1 == BallRemove(w, n)
         IN IF n \in w1.food THEN [w1 EXCEPT !.food = @ \ {n}]
            ELSE [w1 EXCEPT !.err = TRUE]

FoodInitBalls(w, sizes) == FoodSpawnMany(w, Take(sizes, FoodNumInit))

\* step: whether this step refreshes, and the step itself.  The accumulator
\* is counted in whole state-ticks, which is what the floats give when
\* 1 / state_tick_per_second is a power of two; FoodClockStep keeps the floats.
FoodRefreshDue(w) ==
    w.refresh_time_count + 1 >= FoodRefreshTime * cfg.state_tick_per_second

FoodStep(w, sizes) ==
    IF FoodRefreshDue(w)
    THEN [FoodRefresh(w, sizes) EXCEPT !.refresh_time_count = 0]
    ELSE [w EXCEPT !.refresh_time_count = @ + 1]

\* A reset that clears the accumulator and keeps the balls.
FoodResetKeepsBalls(w) == [w EXCEPT !.refresh_time_count = 0]

FoodReset(w) == [w EXCEPT !.refresh_time_count = 0, !.food = {}]

\* ---------------------------------------------------------- ThornsManager
ThornsAddBalls(w, b) == [Put(w, b) EXCEPT !.thorns = @ \cup {b.name}]

ThornsSpawnBall(w, s) ==
    ThornsAddBalls([w EXCEPT !.names = @ + 1], ThornsBall(w.names + 1, s))

RECURSIVE ThornsSpawnMany(_, _)
ThornsSpawnMany(w, sizes) ==
    IF sizes = <<>> THEN w
    ELSE ThornsSpawnMany(ThornsSpawnBall(w, Head(sizes)), Tail(sizes))

ThornsTodoNum(w) == Min(ThornsRefreshNum, ThornsNumMax - Cardinality(w.thorns))

ThornsRemoveBalls(w, n) ==
    IF Get(w, n).kind # "thorns" THEN w
    ELSE LET w1 == BallRemove(w, n)
         IN IF n \in w1.thorns THEN [w1 EXCEPT !.thorns = @ \ {n}]
            ELSE [w1 EXCEPT !.err = TRUE]

ThornsRefresh(w, sizes) == ThornsSpawnMany(w, Take(sizes, ThornsTodoNum(w)))

ThornsInitBalls(w, sizes) == ThornsSpawnMany(w, Take(sizes, ThornsNumInit))

ThornsRefreshDue(w) ==
    w.thorns_time_count + 1 >= ThornsRefreshTime * cfg.state_tick_per_second

ThornsStep(w, sizes) ==
    IF ThornsRefreshDue(w)
    THEN [ThornsRefresh(w, sizes) EXCEPT !.thorns_time_count = 0]
    ELSE [w EXCEPT !.thorns_time_count = @ + 1]

ThornsReset(w) == [w EXCEPT !.thorns_time_count = 0, !.thorns = {}]

\* ----------------------------------------------------------- SporeManager
SporeAddBalls(w, b) == [Put(w, b) EXCEPT !.spores = @ \cup {b.name}]

\* remove_balls; when trace is set the ball it was called with is kept.
SporeRemoveBalls(w, n) ==
    LET w0 == IF w.trace THEN [w EXCEPT !.spore_calls = @ \cup {n}] ELSE w
    IN IF Get(w, n).kind # "spore" THEN w0
       ELSE LET w1 == BallRemove(w0, n)
            IN IF n \in w1.spores THEN [w1 EXCEPT !.spores = @ \ {n}]
               ELSE [w1 EXCEPT !.err = TRUE]

SporeStep(w) == w

SporeReset(w) == [w EXCEPT !.spores = {}]

\* ------------------------------------------- PlayerManager and its players
\* player.get_balls(): the player's cells in insertion order.
PlayerGetBalls(w, p) == InOrder({n \in w.clones : Get(w, n).owner = p})

\* get_clone_num(ball): the number of cells of the ball's owner.
GetCloneNum(w, n) ==
    Cardinality({m \in w.clones : Get(w, m).owner = Get(w, n).owner})

PlayerAddBalls(w, b) == [Put(w, b) EXCEPT !.clones = @ \cup {b.name}]

RECURSIVE PlayerAddMany(_, _)
PlayerAddMany(w, bs) ==
    IF bs = <<>> THEN w ELSE PlayerAddMany(PlayerAddBalls(w, Head(bs)), Tail(bs))

PlayerRemoveBalls(w, n) ==
    IF Get(w, n).kind # "clone" THEN w
    ELSE LET w1 == BallRemove(w, n)
         IN IF n \in w1.clones THEN [w1 EXCEPT !.clones = @ \ {n}]
            ELSE [w1 EXCEPT !.err = TRUE]

\* sorted(balls, reverse=True): by size, largest first; the sort is stable,
\* so balls of equal size keep their order.
RECURSIVE SortBySize(_, _)
SortBySize(w, ns) ==
    IF ns = <<>> THEN <<>>
    ELSE LET top == CHOOSE j \in DOMAIN ns :
                        /\ \A k \in DOMAIN ns : Get(w, ns[k]).size <= Get(w, ns[j]).size
                        /\ \A k \in 1..(j - 1) : Get(w, ns[k]).size < Get(w, ns[j]).size
         IN <<ns[top]>> \o
            SortBySize(w, SubSeq(ns, 1, top - 1) \o SubSeq(ns, top + 1, Len(ns)))

\* player.eject(): every cell of at least eject_radius_min loses the size of a
\* spore (never going below radius_min) and emits one SporeBall, which
\* step_state_tick adds to the spore manager.
RECURSIVE EjectCells(_, _)
EjectCells(w, ns) ==
    IF ns = <<>> THEN w
    ELSE LET b == Get(w, Head(ns))
             s == SporeRadius * SporeRadius
         IN IF b.size >= EjectRadiusMin * EjectRadiusMin /\ b.size - s >= RadiusMin * RadiusMin
            THEN EjectCells(
                     SporeAddBalls([SetSize(w, b.name, b.size - s) EXCEPT !.names = @ + 1],
                                   SporeBall(w.names + 1)),
                     Tail(ns))
            ELSE EjectCells(w, Tail(ns))

PlayerEject(w, p) == EjectCells(w, PlayerGetBalls(w, p))

\* player.split(): the cells, largest first; a cell of at least
\* split_radius_min gives half of its size to a new cell while the player has
\* fewer than part_num_max cells; step_state_tick adds the new cells.
RECURSIVE SplitCells(_, _, _)
SplitCells(w, p, ns) ==
    IF ns = <<>> THEN w
    ELSE LET b == Get(w, Head(ns))
             half == b.size \div 2
         IN IF /\ b.size >= SplitRadiusMin * SplitRadiusMin
               /\ Cardinality({m \in w.clones : Get(w, m).owner = p}) < PartNumMax
            THEN SplitCells(
                     PlayerAddBalls([SetSize(w, b.name, b.size - half) EXCEPT !.names = @ + 1],
                                    CloneBall(w.names + 1, half, p)),
                     p, Tail(ns))
            ELSE SplitCells(w, p, Tail(ns))

PlayerSplit(w, p) == SplitCells(w, p, SortBySize(w, PlayerGetBalls(w, p)))

\* PlayerManager.adjust(): two overlapping cells of one player that are both
\* old enough fuse: the larger keeps its identity and takes the sum, the
\* smaller is removed.  Which pairs fuse (age, position) is the input fuse.
RECURSIVE Adjust(_, _)
Adjust(w, fuse) ==
    IF fuse = {} THEN w
    ELSE LET pr == CHOOSE x \in fuse : TRUE
             a == CHOOSE x \in pr : \A y \in pr : x <= y
             b == CHOOSE x \in pr : x # a
             keep == IF Get(w, b).size > Get(w, a).size THEN b ELSE a
             gone == IF keep = a THEN b ELSE a
         IN Adjust(PlayerRemoveBalls(
                       SetSize(w, keep, Get(w, keep).size + Get(w, gone).size), gone),
                   fuse \ {pr})

\* The pairs adjust may fuse: disjoint pairs of cells of one player.
FuseChoices(w) ==
    LET pairs == {pr \in {{x, y} : x, y \in w.clones} :
                      /\ Cardinality(pr) = 2
                      /\ \A x, y \in pr : Get(w, x).owner = Get(w, y).owner}
    IN {f \in SubsetsUpTo(pairs, MaxFusions) : \A x, y \in f : x # y => x \cap y = {}}

\* PlayerManager.step(): a player without cells is respawned as one cell of
\* radius_init.
RECURSIVE Respawn(_, _)
Respawn(w, ps) ==
    IF ps = {} THEN w
    ELSE LET p == CHOOSE x \in ps : \A y \in ps : x <= y
         IN IF \E n \in w.clones : Get(w, n).owner = p
            THEN Respawn(w, ps \ {p})
            ELSE Respawn(PlayerAddBalls([w EXCEPT !.names = @ + 1],
                                        CloneBall(w.names + 1, RadiusInit * RadiusInit, p)),
                         ps \ {p})

PlayerManagerStep(w) == Respawn(w, Players)

\* PlayerManager.init_balls(): every player is created with one cell of
\* radius_init.
PlayerInitBalls(w) == Respawn([w EXCEPT !.clones = {}], Players)

PlayerReset(w) == [w EXCEPT !.clones = {}]

\* ------------------------------------------------------------ ball.eat
\* The history of one eat call: who ate whom, the sizes and removed flags
\* before it, the moving ball of the pair that led to it, and the number of
\* cells the eaten ball's owner holds before it (0 when it has no owner);
\* graze: the two overlap without the center of the eaten one being inside
\* the eater.
EatEvent(w, a, b, m) ==
    [eater |-> a, eaten |-> b, moving |-> m,
     eater_kind |-> Get(w, a).kind, eaten_kind |-> Get(w, b).kind,
     eater_size |-> Get(w, a).size, eaten_size |-> Get(w, b).size,
     eater_owner |-> Get(w, a).owner, eaten_owner |-> Get(w, b).owner,
     eater_removed |-> Get(w, a).is_remove, eaten_removed |-> Get(w, b).is_remove,
     graze |-> {a, b} \in w.graze,
     eaten_cells |-> Cardinality({c \in w.clones : Get(w, c).owner = Get(w, b).owner})]

\* a.eat(b): a takes b's size.
Eat(w, a, b, m) ==
    [SetSize(w, a, Get(w, a).size + Get(w, b).size)
        EXCEPT !.log = Append(@, EatEvent(w, a, b, m))]

\* The cells a clone that ate a thorn shatters into: with clone_num cells the
\* owner has room for part_num_max - clone_num more, at most
\* on_thorns_part_num, each of radius at most on_thorns_part_radius_max; the
\* eater keeps the rest of its size.
OnThornsNum(clone_num) == Min(OnThornsPartNum, PartNumMax - clone_num)

OnThornsSize(size, n) ==
    Min(size \div (n + 1), OnThornsPartRadiusMax * OnThornsPartRadiusMax)

\* clone.eat(thorns, clone_num=...): the world after the eat (the eater's size
\* settled, the names of the new cells taken) and the list it returns.
EatThorns(w, a, b, m, clone_num) ==
    LET w1 == Eat(w, a, b, m)
        n == OnThornsNum(clone_num)
        c == OnThornsSize(Get(w1, a).size, n)
    IN IF n <= 0 THEN [w |-> w1, ret |-> <<>>]
       ELSE [w |-> [SetSize(w1, a, Get(w1, a).size - n * c) EXCEPT !.names = @ + n],
             ret |-> [j \in 1..n |-> CloneBall(w1.names + j, c, Get(w1, a).owner)]]

\* ------------------------------------------------ Server.deal_with_collision
\* Clone against clone with the eat calls and none of the remove_balls calls.
CloneVsCloneKeepsEaten(w, m, t) ==
    LET mb == Get(w, m)
        tb == Get(w, t)
    IN IF TeamOf(mb.owner) # TeamOf(tb.owner)
       THEN IF mb.size > tb.size THEN Eat(w, m, t, m) ELSE Eat(w, t, m, m)
       ELSE IF mb.owner # tb.owner
       THEN IF mb.size > tb.size
            THEN IF GetCloneNum(w, t) > 1 THEN Eat(w, m, t, m) ELSE w
            ELSE IF GetCloneNum(w, m) > 1 THEN Eat(w, t, m, m) ELSE w
       ELSE w

\* Clone against clone with teammates eaten whatever their owner has left.
CloneVsCloneAnyTeammate(w, m, t) ==
    LET mb == Get(w, m)
        tb == Get(w, t)
    IN IF TeamOf(mb.owner) # TeamOf(tb.owner) \/ mb.owner # tb.owner
       THEN IF mb.size > tb.size
            THEN PlayerRemoveBalls(Eat(w, m, t, m), t)
            ELSE PlayerRemoveBalls(Eat(w, t, m, m), m)
       ELSE w

\* Lines 243-260: clone against clone.
CloneVsClone(w, m, t) ==
    LET mb == Get(w, m)
        tb == Get(w, t)
    IN IF TeamOf(mb.owner) # TeamOf(tb.owner)
       THEN IF mb.size > tb.size
            THEN PlayerRemoveBalls(Eat(w, m, t, m), t)
            ELSE PlayerRemoveBalls(Eat(w, t, m, m), m)
       ELSE IF mb.owner # tb.owner
       THEN IF mb.size > tb.size
            THEN IF GetCloneNum(w, t) > 1
                 THEN PlayerRemoveBalls(Eat(w, m, t, m), t) ELSE w
            ELSE IF GetCloneNum(w, m) > 1
                 THEN PlayerRemoveBalls(Eat(w, t, m, m), m) ELSE w
       ELSE w

\* clone eats thorns: eat, remove the thorn, add the cells of the explosion.
CloneEatsThorns(w, clone, thorn, m) ==
    LET r == EatThorns(w, clone, thorn, m, GetCloneNum(w, clone))
    IN PlayerAddMany(ThornsRemoveBalls(r.w, thorn), r.ret)

\* A guard that looks at the moving ball alone.
BothPresentMovingOnly(w, m, t) == ~Get(w, m).is_remove

\* A deal_with_collision without its guard.
BothPresentUnchecked(w, m, t) == TRUE

\* "Ensure that the two balls are present".
BothPresent(w, m, t) == ~Get(w, m).is_remove /\ ~Get(w, t).is_remove

\* A deal_with_collision whose moving thorn is eaten by a clone of its own
\* size too.
DealWithCollisionThornNotLarger(w, m, t) ==
    LET mb == Get(w, m)
        tb == Get(w, t)
    IN IF ~BothPresent(w, m, t)
       THEN [w EXCEPT !.skipped = @ \cup {n \in {m, t} : Get(w, n).is_remove}]
       ELSE IF mb.kind = "clone"
       THEN CASE tb.kind = "clone" -> CloneVsClone(w, m, t)
              [] tb.kind = "food" -> FoodRemoveBalls(Eat(w, m, t, m), t)
              [] tb.kind = "spore" -> SporeRemoveBalls(Eat(w, m, t, m), t)
              [] tb.kind = "thorns" ->
                    IF mb.size > tb.size THEN CloneEatsThorns(w, m, t, m) ELSE w
       ELSE IF mb.kind = "thorns"
       THEN CASE tb.kind = "clone" ->
                    IF mb.size <= tb.size THEN CloneEatsThorns(w, t, m, m) ELSE w
              [] tb.kind = "spore" -> SporeRemoveBalls(Eat(w, m, t, m), t)
              [] OTHER -> w
       ELSE IF mb.kind = "thorns"
       THEN IF tb.kind \in {"clone", "thorns"}
            THEN SporeRemoveBalls(Eat(w, t, m, m), m) ELSE w
       ELSE w

\* A deal_with_collision with its two branches for a moving thorn in the
\* other order.
DealWithCollisionSecondFirst(w, m, t) ==
    LET mb == Get(w, m)
        tb == Get(w, t)
    IN IF ~BothPresent(w, m, t)
       THEN [w EXCEPT !.skipped = @ \cup {n \in {m, t} : Get(w, n).is_remove}]
       ELSE IF mb.kind = "clone"
       THEN CASE tb.kind = "clone" -> CloneVsClone(w, m, t)
              [] tb.kind = "food" -> FoodRemoveBalls(Eat(w, m, t, m), t)
              [] tb.kind = "spore" -> SporeRemoveBalls(Eat(w, m, t, m), t)
              [] tb.kind = "thorns" ->
                    IF mb.size > tb.size THEN CloneEatsThorns(w, m, t, m) ELSE w
       ELSE IF mb.kind = "thorns"
       THEN IF tb.kind \in {"clone", "thorns"}
            THEN SporeRemoveBalls(Eat(w, t, m, m), m) ELSE w
       ELSE IF mb.kind = "thorns"
       THEN CASE tb.kind = "clone" ->
                    IF mb.size < tb.size THEN CloneEatsThorns(w, t, m, m) ELSE w
              [] tb.kind = "spore" -> SporeRemoveBalls(Eat(w, m, t, m), t)
              [] OTHER -> w
       ELSE w

\* Lines 241-288.  The second branch for a moving ThornsBall (lines 283-286)
\* stands after the first, as in the source.
DealWithCollision(w, m, t) ==
    LET mb == Get(w, m)
        tb == Get(w, t)
    IN IF ~BothPresent(w, m, t)
       THEN [w EXCEPT !.skipped = @ \cup {n \in {m, t} : Get(w, n).is_remove}]
       ELSE IF mb.kind = "clone"
       THEN CASE tb.kind = "clone" -> CloneVsClone(w, m, t)
              [] tb.kind = "food" -> FoodRemoveBalls(Eat(w, m, t, m), t)
              [] tb.kind = "spore" -> SporeRemoveBalls(Eat(w, m, t, m), t)
              [] tb.kind = "thorns" ->
                    IF mb.size > tb.size THEN CloneEatsThorns(w, m, t, m) ELSE w
       ELSE IF mb.kind = "thorns"
       THEN CASE tb.kind = "clone" ->
                    IF mb.size < tb.size THEN CloneEatsThorns(w, t, m, m) ELSE w
              [] tb.kind = "spore" -> SporeRemoveBalls(Eat(w, m, t, m), t)
              [] OTHER -> w
       ELSE IF mb.kind = "thorns"
       THEN IF tb.kind \in {"clone", "thorns"}
            THEN SporeRemoveBalls(Eat(w, t, m, m), m) ELSE w
       ELSE w

\* ---------------------------------------------------- Server.step_state_tick
\* An action is (direction_x, direction_y, action_type): dir is "none" (a
\* direction of None), "unit" (a vector normalize() accepts) or "zero" (the
\* zero vector, for which normalize() raises ValueError).
NoActions == [given |-> FALSE, map |-> <<>>]

\* What the action of type ty did for player p between the worlds w and w1.
Acted(w, w1, p, ty, moved) ==
    [type |-> ty,
     cells |-> Len(PlayerGetBalls(w1, p)) - Len(PlayerGetBalls(w, p)),
     spores |-> Cardinality(w1.spores \ w.spores),
     others |-> w1.food # w.food \/ w1.thorns # w.thorns
                \/ w1.clones \ {n \in w1.clones : Get(w1, n).owner = p}
                   # w.clones \ {n \in w.clones : Get(w, n).owner = p},
     moved |-> moved]

\* An action application in which every type moves and an eject splits too.
RECURSIVE ApplyActionsAllAtOnce(_, _, _)
ApplyActionsAllAtOnce(w, ps, acts) ==
    IF ps = <<>> \/ w.err THEN w
    ELSE LET p == Head(ps)
         IN IF p \notin DOMAIN acts THEN [w EXCEPT !.err = TRUE]
            ELSE IF acts[p].dir = "zero" THEN [w EXCEPT !.err = TRUE]
            ELSE LET w1 == IF acts[p].type = 0 THEN PlayerEject(w, p) ELSE w
                     w2 == IF acts[p].type \in {0, 1} THEN PlayerSplit(w1, p) ELSE w1
                     w3 == [w2 EXCEPT !.moving = @ \o PlayerGetBalls(w2, p)]
                     w4 == IF ~w.trace THEN w3
                           ELSE [w3 EXCEPT !.acted =
                                    @ @@ (p :> Acted(w, w3, p, acts[p].type, TRUE))]
                 IN ApplyActionsAllAtOnce(w4, Tail(ps), acts)

\* "Update all player balls according to action", for the players ps in turn.
RECURSIVE ApplyActions(_, _, _)
ApplyActions(w, ps, acts) ==
    IF ps = <<>> \/ w.err THEN w
    ELSE LET p == Head(ps)
         IN IF p \notin DOMAIN acts THEN [w EXCEPT !.err = TRUE]
            ELSE IF acts[p].dir = "zero" THEN [w EXCEPT !.err = TRUE]
            ELSE LET w1 == IF acts[p].type = 0 THEN PlayerEject(w, p) ELSE w
                     w2 == IF acts[p].type = 1 THEN PlayerSplit(w1, p) ELSE w1
                     w3 == IF acts[p].type = 2 THEN w2
                           ELSE [w2 EXCEPT !.moving = @ \o PlayerGetBalls(w2, p)]
                     w4 == IF ~w.trace THEN w3
                           ELSE [w3 EXCEPT !.acted =
                                    @ @@ (p :> Acted(w, w3, p, acts[p].type, acts[p].type # 2))]
                 IN ApplyActions(w4, Tail(ps), acts)

\* actions is None: every player moves on.
RECURSIVE MoveAll(_, _)
MoveAll(w, ps) ==
    IF ps = <<>> THEN w
    ELSE MoveAll([w EXCEPT !.moving = @ \o PlayerGetBalls(w, Head(ps)),
                           !.total = @ \o PlayerGetBalls(w, Head(ps))],
                 Tail(ps))

\* player_manager.get_balls(): the cells of all players, player by player.
RECURSIVE AllPlayerBalls(_, _)
AllPlayerBalls(w, ps) ==
    IF ps = <<>> THEN <<>>
    ELSE PlayerGetBalls(w, Head(ps)) \o AllPlayerBalls(w, Tail(ps))

\* Lines 182-220: the actions (or the plain move), the sort of moving_balls,
\* the thorns appended to it.
Kinematics(w, acts) ==
    LET ps == InOrder(Players)
        w1 == IF acts.given THEN ApplyActions(w, ps, acts.map) ELSE MoveAll(w, ps)
    IN IF w1.err THEN w1
       ELSE [w1 EXCEPT !.moving = SortBySize(w1, @) \o InOrder(w1.thorns)]

\* Lines 224-227: total_balls.
BuildTotal(w) ==
    [w EXCEPT !.total = @ \o AllPlayerBalls(w, InOrder(Players)) \o InOrder(w.thorns)
                          \o InOrder(w.spores) \o InOrder(w.food)]

\* A tick that lists total_balls before player_manager.adjust has run.
TotalThenAdjust(w, fuse) == Adjust(BuildTotal(w), fuse)

\* Lines 222-227: adjust, then total_balls.
Detect(w, fuse) == BuildTotal(Adjust(w, fuse))

\* collision_detection.solve: ov is the set of overlapping pairs; the direct
\* scan gives a moving ball the balls of total_balls it overlaps, itself
\* excluded, in the order of total_balls.
OverlapChoices(w) ==
    SubsetsUpTo({pr \in {{m, t} : m \in Range(w.moving), t \in Range(w.total)} :
                     Cardinality(pr) = 2},
                MaxOverlaps)

Targets(w, ov, m) ==
    SelectSeq(w.total, LAMBDA t : t # m /\ {m, t} \in ov)

\* for target_ball in collisions_dict[index]: self.deal_with_collision(...)
RECURSIVE ForTargets(_, _, _)
ForTargets(w, m, ts) ==
    IF ts = <<>> \/ w.err THEN w
    ELSE ForTargets(DealWithCollision(w, m, Head(ts)), m, Tail(ts))

\* "Process each ball in moving_balls", from index idx on.
RECURSIVE ForMoving(_, _, _)
ForMoving(w, ov, idx) ==
    IF idx > Len(w.moving) \/ w.err THEN w
    ELSE LET m == w.moving[idx]
         IN IF ~Get(w, m).is_remove
            THEN ForMoving(ForTargets(w, m, Targets(w, ov, m)), ov, idx + 1)
            ELSE ForMoving([w EXCEPT !.skipped = @ \cup {m}], ov, idx + 1)

\* Lines 235-238: the managers' steps.
\* The managers' steps without the player manager's.
ManagersStepNoPlayers(w, fsizes, tsizes) ==
    ThornsStep(SporeStep(FoodStep(w, fsizes)), tsizes)

ManagersStep(w, fsizes, tsizes) ==
    PlayerManagerStep(ThornsStep(SporeStep(FoodStep(w, fsizes)), tsizes))

\* The sizes the managers' steps draw: as many as the refresh spawns.
FoodDraws(w) ==
    [1..(IF FoodRefreshDue(w) /\ FoodTodoNum(w) > 0 THEN FoodTodoNum(w) ELSE 0) -> FoodSizes]
ThornsDraws(w) ==
    [1..(IF ThornsRefreshDue(w) /\ ThornsTodoNum(w) > 0 THEN ThornsTodoNum(w) ELSE 0)
        -> ThornsSizes]

\* Lines 228-233: the collision phase, with the sizes held before and after.
\* The positions of an overlapping clone/thorn pair: the thorn's center is
\* inside the clone or it is not (a grazing overlap).
GrazeChoices(w, ov) ==
    SUBSET {pr \in ov : {Get(w, n).kind : n \in pr} = {"clone", "thorns"}}

Collisions(w, ov, gz) ==
    LET w0 == IF ~w.trace THEN w
              ELSE [w EXCEPT !.detect =
                       [moving |-> [k \in DOMAIN w.moving |-> Get(w, w.moving[k])],
                        total |-> [k \in DOMAIN w.total |-> Get(w, w.total[k])],
                        overlaps |-> ov, names |-> w.names, resolved |-> 0]]
        w1 == ForMoving([w0 EXCEPT !.mass_before = Mass(w), !.graze = gz], ov, 1)
    IN [w1 EXCEPT !.mass_after = Mass(w1),
                  !.detect.resolved = IF w.trace THEN w1.names ELSE 0,
                  !.zero = {p \in Players : \A n \in w1.clones : Get(w1, n).owner # p}]

\* ------------------------------------------------------------------ Server
\* The managers' balls and counters after the world w.
Commit(w) ==
    /\ w.names <= MaxNames
    /\ name_count' = w.names
    /\ food_balls' = Held(w, w.food)
    /\ refresh_time_count' = w.refresh_time_count
    /\ thorns_balls' = Held(w, w.thorns)
    /\ thorns_time_count' = w.thorns_time_count
    /\ spore_balls' = Held(w, w.spores)
    /\ clone_balls' = Held(w, w.clones)

Snapshot == <<food_balls, thorns_balls, spore_balls, clone_balls>>

\* The history of the last operation: its kind ("none", "start", "stop",
\* "reset", or how a step call went: "done", "unset", "stopped", "ran",
\* "raised"); for a step call last_time and the end flag at entry, the
\* state-ticks completed, the loop indices at which the actions were passed,
\* whether actions were supplied, and the managers' balls at entry of a call
\* that found the match over or stopped; for a reset the names handed out,
\* last_time and the end flag before it; seq: the parity of the calls to step
\* since the last start, stop or reset; unknown: the action map names a
\* player that is not in the world; zeros: the players whose action has a
\* direction of length zero.
Op(kind) == [kind |-> kind, t0 |-> 0, flag0 |-> "unset", ticks |-> 0, given_at |-> {},
             supplied |-> FALSE, entry |-> <<>>, mark |-> 0, seq |-> 0,
             unknown |-> FALSE, zeros |-> {}]
NoTick == [iv |-> 0, given |-> FALSE, acted |-> <<>>, log |-> <<>>, skipped |-> {},
           gone |-> {}, detect |-> NoDetect, names |-> <<0, 0>>, spore_calls |-> {},
           mass_before |-> 0, mass_after |-> 0, zero |-> {}, done |-> FALSE]

\* The action maps a caller supplies: None, or one action per player.
ValidActions == [dir : {"unit"}, type : 0..3]
ActionMaps == {NoActions} \cup {[given |-> TRUE, map |-> f] : f \in [Players -> ValidActions]}

\* The action maps a caller can supply at all: an action may have a direction
\* of length zero (with type stop or move), a player may be missing, and the
\* map may name a player that is not in the world.
UnknownPlayer == Cardinality(Players)
AnyActions == ValidActions \cup [dir : {"zero"}, type : {2, 3}]
AnyDomains ==
    {Players, Players \cup {UnknownPlayer}}
        \cup {(Players \ {p}) \cup {UnknownPlayer} : p \in Players}
AnyActionMaps ==
    {NoActions} \cup
    {[given |-> TRUE,
      map |-> [p \in D |-> IF p \in Players THEN f[p] ELSE [dir |-> "unit", type |-> 3]]] :
        f \in [Players -> AnyActions], D \in AnyDomains}

\* ------------------------------------------------- seeds and random draws
\* Two servers built from the same configuration and run side by side.
Servers == {1, 2}

\* The generator behind random.uniform: each draw is read off the generator's
\* state, and moves the state on.
NextRandom(st) == (5 * st + 3) % RandomStates
Uniform(st, lo, hi) == lo + (st % (hi - lo + 1))

\* One server on its own: nothing is compared.
Alone ==
    [seeded |-> FALSE, clock |-> 0,
     rng |-> [x \in Servers |-> 0], balls |-> [x \in Servers |-> <<>>]]

\* ------------------------------------------------------ float arithmetic
\* Python floats are IEEE doubles: Mantissa significant bits, every result
\* rounded to nearest, ties to even.  A value is held in fixed point as the
\* bits b[1..Width], b[k] worth 2^(k - 1 - FracBits); the values met here are
\* below 8 and no smaller than 2^-7, so nothing is lost but what the rounding
\* drops.
Mantissa == 53
FracBits == Mantissa + 8
Width == FracBits + 3

FloatZero == [k \in 1..Width |-> 0]

\* The carry into place k: some place below makes one and every place
\* between passes it on.
CarryInto(a, b, k) ==
    IF \E j \in 1..(k - 1) :
           /\ a[j] + b[j] = 2
           /\ \A m \in (j + 1)..(k - 1) : a[m] + b[m] >= 1
    THEN 1 ELSE 0

\* The exact sum.
FixAdd(a, b) == [k \in 1..Width |-> (a[k] + b[k] + CarryInto(a, b, k)) % 2]

\* The place of the leading bit (0 for zero).
Top(a) ==
    IF \A k \in 1..Width : a[k] = 0 THEN 0
    ELSE CHOOSE k \in 1..Width : a[k] = 1 /\ \A j \in (k + 1)..Width : a[j] = 0

\* Rounding to Mantissa significant bits, to nearest, ties to even.
RoundDouble(a) ==
    LET r == Top(a) - Mantissa
    IN IF r <= 0 THEN a
       ELSE LET kept == [k \in 1..Width |-> IF k <= r THEN 0 ELSE a[k]]
                up == a[r] = 1 /\ ((\E k \in 1..(r - 1) : a[k] = 1) \/ a[r + 1] = 1)
            IN IF up THEN FixAdd(kept, [k \in 1..Width |-> IF k = r + 1 THEN 1 ELSE 0])
               ELSE kept

\* a + b on floats.
FloatAdd(a, b) == RoundDouble(FixAdd(a, b))

\* 1 / n for an integer n >= 1: long division, bit j after the point from
\* the remainder left by bit j - 1; the lowest place also stands for all
\* that follows it.
RECURSIVE Rem(_, _)
Rem(n, j) == IF j = 0 THEN 1 % n ELSE (2 * Rem(n, j - 1)) % n

QuotBit(n, j) == (2 * Rem(n, j - 1)) \div n

FloatInverse(n) ==
    RoundDouble([k \in 1..Width |->
        IF k > FracBits + 1 THEN 0
        ELSE IF k = FracBits + 1 THEN 1 \div n
        ELSE IF k = 1
             THEN (IF QuotBit(n, FracBits) = 1 \/ Rem(n, FracBits) # 0 THEN 1 ELSE 0)
        ELSE QuotBit(n, FracBits + 1 - k)])

\* a >= n for a float a and an integer n.
FloatAtLeast(a, n) == a[FracBits + 1] + 2 * a[FracBits + 2] >= n

\* No food manager is stepped on its own.
NoClock ==
    [rate |-> 0, refresh_time |-> 0, duration |-> FloatZero,
     refresh_time_count |-> FloatZero, steps |-> 0, gap |-> 0, refreshes |-> 0,
     last_time |-> FloatZero, ticks |-> 0, exact |-> FloatZero]

\* Server.__init__
Constructed ==
    /\ cfg \in Configs
    /\ last_time = 0
    /\ end_flag = "unset"
    /\ name_count = 0
    /\ food_balls = {}
    /\ refresh_time_count = 0
    /\ thorns_balls = {}
    /\ thorns_time_count = 0
    /\ spore_balls = {}
    /\ clone_balls = {}
    /\ pc = "idle"
    /\ i = 0
    /\ actions = NoActions
    /\ ret = "none"
    /\ call = Op("none")
    /\ tick = NoTick

Init == Constructed /\ trace = FALSE /\ twin = Alone /\ food_clock = NoClock

\* spawn_balls
SpawnBalls(w, fsizes, tsizes) ==
    PlayerInitBalls(ThornsInitBalls(FoodInitBalls(w, fsizes), tsizes))

\* start
StartFrom(w) ==
    \E fsizes \in [1..FoodNumInit -> FoodSizes], tsizes \in [1..ThornsNumInit -> ThornsSizes] :
    \E w1 \in {SpawnBalls(w, fsizes, tsizes)} :
        /\ Commit(w1)
        /\ end_flag' = "false"

Start ==
    /\ pc = "idle"
    /\ StartFrom(World)
    /\ call' = Op("start")
    /\ UNCHANGED <<cfg, trace, twin, food_clock, last_time, pc, i, actions, ret, tick>>

\* stop
Stop ==
    /\ pc = "idle"
    /\ end_flag' = "true"
    /\ call' = Op("stop")
    /\ UNCHANGED <<cfg, trace, twin, food_clock, last_time, name_count, food_balls, refresh_time_count,
                   thorns_balls, thorns_time_count, spore_balls, clone_balls,
                   pc, i, actions, ret, tick>>

\* The managers' resets of reset.
ResetManagers(w) == PlayerReset(SporeReset(ThornsReset(FoodReset(w))))

\* reset
Reset ==
    /\ pc = "idle"
    /\ last_time' = 0
    /\ StartFrom(ResetManagers(World))
    /\ call' = [Op("reset") EXCEPT !.mark = name_count, !.t0 = last_time,
                                    !.flag0 = end_flag]
    /\ tick' = NoTick
    /\ UNCHANGED <<cfg, trace, twin, food_clock, pc, i, actions, ret>>

\* A guard that lets one more call through: last_time > match_time.
TimeUpLate == last_time > MatchTicks

\* step, line 308: the match time is used up.
TimeUp == last_time >= MatchTicks

\* A step that does not look at the end flag.
RunningUnchecked == TRUE

\* step, line 313: if not self._end_flag
Running == end_flag = "false"

\* A loop that passes the actions at every index.
StepArgEveryTurn(iv, acts) == acts

\* step, lines 315-329: what the loop passes to step_state_tick at index iv.
StepArg(iv, acts) == IF iv = 0 THEN acts ELSE NoActions

\* The history of a state-tick that ended in the world w.
TickOf(w, iv, arg) ==
    [iv |-> iv, given |-> arg.given, acted |-> w.acted,
     log |-> w.log,
     skipped |-> w.skipped,
     zero |-> w.zero, gone |-> {n \in DOMAIN w.obj : w.obj[n].is_remove},
     detect |-> w.detect, spore_calls |-> w.spore_calls,
     names |-> IF w.trace THEN <<name_count, w.names>> ELSE <<0, 0>>,
     mass_before |-> w.mass_before, mass_after |-> w.mass_after, done |-> ~w.err]

\* One turn of the loop of step: step_state_tick with its inputs (which
\* cells fuse, which balls overlap, the sizes drawn), then either the next
\* turn or the return of False.  An exception leaves step at once.
LoopTurn(iv, acts, h) ==
    \E arg \in {StepArg(iv, acts)} :
    \E w1 \in {Kinematics(World, arg)} :
    \E fuse \in (IF w1.err THEN {{}} ELSE FuseChoices(w1)) :
    \E w2 \in {IF w1.err THEN w1 ELSE Detect(w1, fuse)} :
    \E ov \in (IF w1.err THEN {{}} ELSE OverlapChoices(w2)) :
    \E gz \in (IF w1.err THEN {{}} ELSE GrazeChoices(w2, ov)) :
    \E w3 \in {IF w2.err THEN w2 ELSE Collisions(w2, ov, gz)} :
    \E fsizes \in (IF w3.err THEN {<<>>} ELSE FoodDraws(w3)),
       tsizes \in (IF w3.err THEN {<<>>} ELSE ThornsDraws(w3)) :
    \E w \in {IF w3.err THEN w3 ELSE ManagersStep(w3, fsizes, tsizes)} :
        /\ Commit(w)
        /\ tick' = TickOf(w, iv, arg)
        /\ UNCHANGED <<cfg, trace, twin, food_clock, end_flag>>
        /\ IF w.err
           THEN /\ last_time' = last_time
                /\ pc' = "idle" /\ i' = 0 /\ actions' = NoActions /\ ret' = "raised"
                /\ call' = [h EXCEPT !.kind = "raised"]
           ELSE /\ last_time' = last_time + 1
                /\ call' = [h EXCEPT !.ticks = @ + 1,
                                     !.given_at = IF arg.given THEN @ \cup {iv} ELSE @]
                /\ IF iv + 1 < state_tick_per_action_tick
                   THEN pc' = "loop" /\ i' = iv + 1 /\ actions' = acts /\ ret' = "none"
                   ELSE pc' = "idle" /\ i' = 0 /\ actions' = NoActions /\ ret' = "false"

\* step(actions): up to the end of the first turn of the loop.
Step(acts) ==
    /\ pc = "idle"
    /\ LET h == [Op("ran") EXCEPT !.t0 = last_time, !.flag0 = end_flag,
                                  !.supplied = acts.given, !.seq = 1 - call.seq,
                                  !.unknown = DOMAIN acts.map \ Players # {},
                                  !.zeros = {p \in DOMAIN acts.map \cap Players :
                                                acts.map[p].dir = "zero"},
                                  !.entry = IF trace THEN Snapshot ELSE <<>>]
       IN IF TimeUp
          THEN /\ end_flag' = "true"
               /\ ret' = "true"
               /\ call' = [h EXCEPT !.kind = "done", !.entry = Snapshot]
               /\ UNCHANGED <<cfg, trace, twin, food_clock, last_time, name_count, food_balls, refresh_time_count,
                              thorns_balls, thorns_time_count, spore_balls, clone_balls,
                              pc, i, actions, tick>>
          ELSE IF end_flag = "unset"
          THEN /\ ret' = "raised"
               /\ call' = [h EXCEPT !.kind = "unset"]
               /\ UNCHANGED <<cfg, trace, twin, food_clock, last_time, end_flag, name_count, food_balls,
                              refresh_time_count, thorns_balls, thorns_time_count,
                              spore_balls, clone_balls, pc, i, actions, tick>>
          ELSE IF ~Running \/ state_tick_per_action_tick <= 0
          THEN /\ ret' = "false"
               /\ call' = IF end_flag = "true"
                          THEN [h EXCEPT !.kind = "stopped", !.entry = Snapshot]
                          ELSE h
               /\ UNCHANGED <<cfg, trace, twin, food_clock, last_time, end_flag, name_count, food_balls,
                              refresh_time_count, thorns_balls, thorns_time_count,
                              spore_balls, clone_balls, pc, i, actions, tick>>
          ELSE LoopTurn(0, acts, IF end_flag = "true"
                                 THEN [h EXCEPT !.kind = "stopped", !.entry = Snapshot]
                                 ELSE h)

\* step: a later turn of the loop.
Continue ==
    /\ pc = "loop"
    /\ LoopTurn(i, actions, call)

Next ==
    \/ Start
    \/ Stop
    \/ Reset
    \/ \E acts \in ActionMaps : Step(acts)
    \/ Continue

Spec == Init /\ [][Next]_vars

\* A server that is started or reset once and then stepped for ever with
\* well-formed actions: stop is never called from outside, the server is
\* started, and step is called again and again (call.seq, the parity of the
\* calls to step, changes for ever).
Begin ==
    /\ end_flag = "unset"
    /\ (Start \/ Reset)

StepOn ==
    /\ end_flag # "unset"
    /\ \E acts \in ActionMaps : Step(acts)

NextLive ==
    \/ Begin
    \/ StepOn
    \/ Continue

\* The last call to step returned or is running, and was the n-th modulo 2.
Called(n) == call.seq = n /\ call.kind \in {"done", "stopped", "ran"}

\* The same server with the detailed history of each state-tick kept, for the
\* configurations of one action-tick per second and those of one player.
TraceInit ==
    /\ Constructed /\ trace = TRUE /\ twin = Alone /\ food_clock = NoClock
    /\ (cfg.action_tick_per_second = 1 \/ cfg.team_num * cfg.player_num_per_team = 1)

TraceSpec == TraceInit /\ [][NextLive]_vars

\* A server stepped with any action map, well-formed or not, by a caller that
\* gives up at the first exception, for the configurations of one state-tick
\* per action-tick and per second.
StepAny ==
    /\ end_flag # "unset"
    /\ ret # "raised"
    /\ \E acts \in AnyActionMaps : Step(acts)

NextAny ==
    \/ Begin
    \/ StepAny

AnyInit ==
    /\ Constructed /\ trace = TRUE /\ twin = Alone /\ food_clock = NoClock
    /\ cfg.state_tick_per_second = 1 /\ cfg.action_tick_per_second = 1

AnySpec == AnyInit /\ [][NextAny]_vars

\* ---- a server that may be started again without a reset: the second start
\* spawns its balls on top of those the managers hold, so that more thorns
\* than num_max are in the world and two of them can overlap.
NextRestart == Start \/ StepOn

RestartInit ==
    /\ Constructed /\ trace = TRUE /\ twin = Alone /\ food_clock = NoClock
    /\ cfg.state_tick_per_second = 1 /\ cfg.action_tick_per_second = 1
    /\ cfg.team_num * cfg.player_num_per_team = 1

RestartSpec == RestartInit /\ [][NextRestart]_vars

\* ---- two servers given the same seed
one_server_fields == <<cfg, last_time, end_flag, name_count, food_balls,
                       refresh_time_count, thorns_balls, thorns_time_count,
                       spore_balls, clone_balls, pc, i, actions, ret, call, tick, trace>>
one_server == <<one_server_fields, food_clock>>

\* Server.seed, called on both servers with the same seed before any ball
\* is spawned: random.seed(seed) sets the generator's state.
Seed(seed) ==
    /\ ~twin.seeded
    /\ \A x \in Servers : twin.balls[x] = <<>>
    /\ twin' = [twin EXCEPT !.seeded = TRUE, !.rng = [x \in Servers |-> seed]]
    /\ UNCHANGED one_server

\* FoodManager.spawn_ball on server x: the size is drawn from the seeded
\* generator, the name is uuid.uuid1(), which is built from the time of the
\* call; the clock has moved on at the next call, on either server.
SpawnBall(x) ==
    /\ Len(twin.balls[x]) < MaxSpawn
    /\ \E r \in {Uniform(twin.rng[x], FoodRadiusMin, FoodRadiusMax)} :
           twin' = [twin EXCEPT !.balls[x] = Append(@, [name |-> twin.clock, size |-> r * r]),
                                !.rng[x] = NextRandom(@),
                                !.clock = @ + 1]
    /\ UNCHANGED one_server

SeedNext == (\E seed \in 0..MaxSeed : Seed(seed)) \/ (\E x \in Servers : SpawnBall(x))

\* Without seed() each server's generator starts from the operating system's
\* entropy.
SeedInit ==
    /\ Constructed /\ trace = FALSE
    /\ cfg.state_tick_per_second = 1 /\ cfg.action_tick_per_second = 1
    /\ cfg.team_num * cfg.player_num_per_team = 1
    /\ \E r \in [Servers -> 0..(RandomStates - 1)] : twin = [Alone EXCEPT !.rng = r]
    /\ food_clock = NoClock

SeedSpec == SeedInit /\ [][SeedNext]_vars

\* ---- a food manager stepped with the float duration
\* The end of a state-tick: FoodManager.step(duration) with duration =
\* state_tick_duration = 1 / state_tick_per_second (server.py lines 151,
\* 235), then last_time += state_tick_duration (line 239).  steps counts the
\* steps since the last refresh (or init, or reset), gap is what steps had
\* reached when the last refresh came, refreshes counts the refreshes; ticks
\* counts the state-ticks since the last reset and exact is ticks times the
\* duration, with nothing rounded.
FoodClockStep ==
    /\ food_clock.refreshes < MaxClockRefreshes
    /\ \E c \in {FloatAdd(food_clock.refresh_time_count, food_clock.duration)} :
       \E fc \in {[food_clock EXCEPT
                      !.last_time = FloatAdd(@, food_clock.duration),
                      !.ticks = @ + 1,
                      !.exact = FixAdd(@, food_clock.duration)]} :
           food_clock' =
               IF FloatAtLeast(c, food_clock.refresh_time)
               THEN [fc EXCEPT !.refresh_time_count = FloatZero,
                               !.gap = food_clock.steps + 1,
                               !.steps = 0,
                               !.refreshes = @ + 1]
               ELSE [fc EXCEPT !.refresh_time_count = c, !.steps = @ + 1]
    /\ UNCHANGED <<one_server_fields, twin>>

\* Server.reset: last_time = 0, and FoodManager.reset
FoodClockReset ==
    /\ food_clock.steps > 0
    /\ food_clock' = [food_clock EXCEPT !.refresh_time_count = FloatZero,
                                        !.steps = 0, !.gap = 0,
                                        !.last_time = FloatZero, !.ticks = 0,
                                        !.exact = FloatZero]
    /\ UNCHANGED <<one_server_fields, twin>>

ClockNext == FoodClockStep \/ FoodClockReset

ClockInit ==
    /\ Constructed /\ trace = FALSE /\ twin = Alone
    /\ cfg.state_tick_per_second = 1 /\ cfg.action_tick_per_second = 1
    /\ cfg.team_num * cfg.player_num_per_team = 1
    /\ \E n \in 1..MaxClockRate, rt \in 1..MaxClockRefreshTime :
           food_clock = [NoClock EXCEPT !.rate = n, !.refresh_time = rt,
                                        !.duration = FloatInverse(n)]

ClockSpec == ClockInit /\ [][ClockNext]_vars

LiveSpec ==
    /\ Init /\ [][NextLive]_vars
    /\ WF_vars(Begin)
    /\ []<>Called(0) /\ []<>Called(1)

\* ------------------------------------------------------------------ claims
AllBalls == food_balls \cup thorns_balls \cup spore_balls \cup clone_balls

\* A call to step has returned a value (it did not raise).
Returned == pc = "idle" /\ call.kind \in {"done", "stopped", "ran"}

\* C1 as stated: a call to step returns true exactly when last_time has
\* reached match_time at its return.
C1_TrueIffTimeUpAtReturn ==
    Returned => (ret = "true" <=> last_time >= MatchTicks)

\* C1, amended: a call to step returns true exactly when last_time had reached
\* match_time when it was called; a call that returns with last_time below
\* match_time returns false, and so does the call whose state-ticks bring
\* last_time up to match_time.
C1_TrueIffTimeUpAtEntry ==
    Returned =>
        /\ ret = "true" <=> call.t0 >= MatchTicks
        /\ ret \in {"true", "false"}
        /\ last_time < MatchTicks => ret = "false"
        /\ ret = "true" => end_flag = "true" /\ last_time = call.t0

\* The call after the one that used up the match time: it finds the end flag
\* clear, sets it and returns true.
C1_Witness ==
    /\ Returned /\ call.kind = "done" /\ ret = "true"
    /\ call.flag0 = "false" /\ call.t0 = MatchTicks /\ tick.done

C3_StepReturnsTrue == <>(ret = "true")

C5_ResetRebuilds ==
    call.kind = "reset" =>
        /\ last_time = 0
        /\ Cardinality(food_balls) = FoodNumInit
        /\ refresh_time_count = 0
        /\ spore_balls = {}
        /\ \A b \in AllBalls : b.name > call.mark /\ ~b.is_remove
        /\ end_flag = "false"
        /\ Running /\ ~TimeUp

\* A reset of a server that had run state-ticks and had its end flag set.
C5_Witness ==
    /\ call.kind = "reset" /\ call.t0 > 0 /\ call.flag0 = "true"
    /\ call.mark > FoodNumInit + ThornsNumInit + Cardinality(Players)

\* C6: between state-ticks no manager holds a ball whose removed flag is set,
\* and every ball eaten in the last state-tick has its flag set and is in no
\* manager.
C6_NoGhosts ==
    /\ \A b \in AllBalls : ~b.is_remove
    /\ tick.done =>
         \A j \in DOMAIN tick.log :
             /\ tick.log[j].eaten \in tick.gone
             /\ \A b \in AllBalls : b.name # tick.log[j].eaten

\* A state-tick in which a food ball was eaten.
C6_Witness ==
    /\ tick.done
    /\ \E j \in DOMAIN tick.log : tick.log[j].eaten_kind = "food"

\* C7: within a state-tick no ball eats or is eaten once its removed flag is
\* set: at every eat call both balls are unflagged, and a ball eaten earlier
\* in the tick is in no later eat call.
C7_RemovedNeverActs ==
    \A j \in DOMAIN tick.log :
        /\ ~tick.log[j].eater_removed
        /\ ~tick.log[j].eaten_removed
        /\ \A k \in 1..(j - 1) :
               tick.log[k].eaten \notin {tick.log[j].eater, tick.log[j].eaten}

\* A state-tick in which a ball was eaten, or fused away, and came up again
\* later in the collision loop.
C7_Witness ==
    /\ tick.done /\ tick.log # <<>>
    /\ \E j \in DOMAIN tick.log : tick.log[j].eaten \in tick.skipped

\* C8: the sizes held by the managers add up to the same before and after
\* the collision phase of a state-tick, and no ball is eaten twice.
C8_MassConserved ==
    tick.done =>
        /\ tick.mass_before = tick.mass_after
        /\ \A j, k \in DOMAIN tick.log :
               tick.log[j].eaten = tick.log[k].eaten => j = k

\* A state-tick without actions in which a clone ate a clone.
C8_Witness ==
    /\ tick.done /\ ~tick.given /\ tick.mass_before > 0
    /\ \E j \in DOMAIN tick.log :
           tick.log[j].eaten_kind = "clone" /\ tick.log[j].eater_kind = "clone"

CellsOf(p) == {b \in clone_balls : b.owner = p}

\* start has been called (by the caller or by reset): the balls of start are
\* the first to be given names.
Started == name_count > 0

\* C9: once the server is started every player has at least one cell and at
\* most part_num_max cells between state-ticks.
C9_CellBound ==
    Started =>
        \A p \in Players :
            Cardinality(CellsOf(p)) >= 1 /\ Cardinality(CellsOf(p)) <= PartNumMax

\* A state-tick whose collision phase left a player without a cell.
C9_Witness ==
    /\ tick.done /\ tick.zero # {}
    /\ \A p \in tick.zero : Cardinality(CellsOf(p)) = 1

\* C10: when a clone eats a clone of another team the eaten one is strictly
\* smaller than the eater and is the one removed.
C10_LargerEatsSmaller ==
    \A j \in DOMAIN tick.log :
        (/\ tick.log[j].eater_kind = "clone"
         /\ tick.log[j].eaten_kind = "clone"
         /\ TeamOf(tick.log[j].eater_owner) # TeamOf(tick.log[j].eaten_owner))
        => /\ tick.log[j].eaten_size < tick.log[j].eater_size
           /\ tick.log[j].eaten \in tick.gone

\* The eat calls of the last state-tick in which a clone ate a clone.
CloneEats == {j \in DOMAIN tick.log : tick.log[j].eater_kind = "clone"
                                      /\ tick.log[j].eaten_kind = "clone"}

\* C11: a clone eaten by a clone of its own team belongs to another owner, is
\* not the larger of the two, and its owner holds more than one cell when it
\* is eaten; a clone is never eaten by a clone of its own owner; so a player
\* left without a cell by the collisions lost its last cell to another team.
C11_TeammateKeepsLastCell ==
    /\ \A j \in CloneEats :
           TeamOf(tick.log[j].eater_owner) = TeamOf(tick.log[j].eaten_owner)
           => /\ tick.log[j].eater_owner # tick.log[j].eaten_owner
              /\ tick.log[j].eaten_cells > 1
              /\ tick.log[j].eaten_size <= tick.log[j].eater_size
    /\ \A p \in tick.zero :
           \E j \in CloneEats :
               /\ tick.log[j].eaten_owner = p
               /\ tick.log[j].eaten_cells = 1
               /\ TeamOf(tick.log[j].eater_owner) # TeamOf(p)

\* A state-tick in which a clone ate a strictly smaller cell of a teammate.
C11_Witness ==
    /\ tick.done
    /\ \E j \in CloneEats :
           /\ TeamOf(tick.log[j].eater_owner) = TeamOf(tick.log[j].eaten_owner)
           /\ tick.log[j].eater_owner # tick.log[j].eaten_owner
           /\ tick.log[j].eaten_size < tick.log[j].eater_size

\* The eat calls of the last state-tick in which a clone ate a thorn.
ThornEats == {j \in DOMAIN tick.log : tick.log[j].eater_kind = "clone"
                                      /\ tick.log[j].eaten_kind = "thorns"}

\* C12: a clone eats a thorn only when the thorn's center lies inside the
\* clone and the clone is strictly larger.
C12_CenterHitOnly ==
    \A j \in ThornEats :
        /\ ~tick.log[j].graze
        /\ tick.log[j].eaten_size < tick.log[j].eater_size

\* C13: an action of type stop (2) calls no move for the player, and an
\* action of type eject (0) performs no split: it leaves the number of the
\* player's cells as it was and adds nothing but spores; only an action of
\* type split (1) adds cells.
C13_ActionPriority ==
    \A p \in DOMAIN tick.acted :
        /\ tick.acted[p].type = 2 => ~tick.acted[p].moved
        /\ tick.acted[p].type = 0 => tick.acted[p].cells = 0
        /\ tick.acted[p].type # 1 => tick.acted[p].cells = 0
        /\ tick.acted[p].type # 0 => tick.acted[p].spores = 0
        /\ ~tick.acted[p].others

\* A state-tick in which one player ejected a spore and another one stopped.
C13_Witness ==
    /\ tick.done
    /\ \E p, q \in DOMAIN tick.acted :
           /\ tick.acted[p].type = 0 /\ tick.acted[p].spores >= 1
           /\ tick.acted[q].type = 2

\* A call to step that was given actions and reached the loop of state-ticks.
Applied ==
    /\ pc = "idle" /\ call.kind \in {"ran", "raised"}
    /\ call.supplied /\ state_tick_per_action_tick >= 1

\* C14: a call to step whose action map names a player that is not in the
\* world raises, and leaves last_time and every manager's balls as they were.
C14_UnknownPlayerRaises ==
    (Applied /\ call.unknown) =>
        /\ call.kind = "raised"
        /\ last_time = call.t0
        /\ Snapshot = call.entry

\* C15: a call to step in which a player's direction has length zero does not
\* raise: its state-ticks are completed and last_time advances, and that
\* player's cells are given no movement.
C15_ZeroVectorRecovered ==
    (Applied /\ call.zeros # {} /\ ~call.unknown) =>
        /\ call.kind = "ran"
        /\ last_time = call.t0 + state_tick_per_action_tick

\* C16: no server exists whose configuration is invalid: the constructor
\* raises when the state tick rate is not a multiple of the action tick rate.
C16_InvalidConfigRaises ==
    cfg.state_tick_per_second % cfg.action_tick_per_second = 0

\* C17: two servers given the same seed spawn the same balls in the same
\* order: the k-th ball of one has the name and the size of the k-th ball of
\* the other.
C17_SameSeedSameBalls ==
    twin.seeded =>
        \A k \in 1..Min(Len(twin.balls[1]), Len(twin.balls[2])) :
            twin.balls[1][k] = twin.balls[2][k]

\* A state-tick has run to its end and its collision phase was recorded.
Ticked == trace /\ tick.done
\* moving_balls and total_balls as collision_detection.solve was given them.
MovingBalls == {tick.detect.moving[k] : k \in DOMAIN tick.detect.moving}
TotalBalls == {tick.detect.total[k] : k \in DOMAIN tick.detect.total}

\* C18: in every state-tick, whatever the types of the actions, every live
\* clone of every player is in the moving set passed to the collision
\* detection.
C18_EveryCloneMoves ==
    Ticked => \A b \in TotalBalls :
                  (b.kind = "clone" /\ ~b.is_remove) =>
                      \E m \in MovingBalls : m.name = b.name

\* C19: the moving balls are processed in descending order of size, clones
\* and thorns alike: a live ball of the moving list is never smaller than a
\* live ball after it.
C19_SizeDescending ==
    Ticked => \A j, k \in DOMAIN tick.detect.moving :
                  (/\ j < k
                   /\ ~tick.detect.moving[j].is_remove
                   /\ ~tick.detect.moving[k].is_remove) =>
                      tick.detect.moving[j].size >= tick.detect.moving[k].size

\* The balls the rules of the last state-tick were applied to, and the balls
\* the managers' steps spawned at its end.
InRules ==
    {tick.log[k].eater : k \in DOMAIN tick.log} \cup {tick.log[k].eaten : k \in DOMAIN tick.log}
Refreshed == (tick.detect.resolved + 1)..tick.names[2]

\* C20: the phases of a state-tick run in order.  The balls the actions made
\* (spores, split cells) are in total_balls unless adjust has fused them away;
\* a ball adjust removed takes part in no rule, and with actions given
\* total_balls holds no removed ball; the balls the managers' steps spawn are
\* not in moving_balls, not in total_balls and in no rule of that tick;
\* last_time has advanced by one for every state-tick that ran to its end.
C20_PhaseOrder ==
    Ticked =>
        /\ \A n \in (tick.names[1] + 1)..tick.detect.names :
              \/ \E b \in TotalBalls : b.name = n
              \/ \E b \in MovingBalls : b.name = n /\ b.is_remove
        /\ \A b \in TotalBalls \cup MovingBalls : b.is_remove => b.name \notin InRules
        /\ tick.given => \A b \in TotalBalls : ~b.is_remove
        /\ \A n \in Refreshed :
              /\ n \notin InRules
              /\ \A b \in TotalBalls \cup MovingBalls : b.name # n
        /\ (pc = "loop" \/ call.kind = "ran") => last_time = call.t0 + call.ticks

\* A tick with actions in which the actions made a ball, adjust fused a cell
\* away, a rule was applied and the managers spawned a ball.
C20_Witness ==
    /\ Ticked /\ tick.given
    /\ tick.detect.names > tick.names[1]
    /\ \E b \in MovingBalls : b.is_remove
    /\ tick.log # <<>>
    /\ Refreshed # {}

\* C21: a food manager stepped with the constant duration 1 / rate refreshes
\* every refresh_time * rate steps and at no other step: a refresh comes at
\* exactly that many steps after the one before (or after init or reset),
\* and no more steps than that ever go by without one.
C21_RefreshEveryPeriod ==
    food_clock.rate > 0 =>
        /\ food_clock.gap # 0 => food_clock.gap = food_clock.refresh_time * food_clock.rate
        /\ food_clock.steps < food_clock.refresh_time * food_clock.rate

\* C22: after any sequence of start, reset and step calls the food manager
\* holds at most num_max foods.
C22_FoodAtMostNumMax == Cardinality(food_balls) <= FoodNumMax

\* The events of the last state-tick in which the moving ball was a thorn.
ThornMoved ==
    {e \in {tick.log[k] : k \in DOMAIN tick.log} :
        \/ e.moving = e.eater /\ e.eater_kind = "thorns"
        \/ e.moving = e.eaten /\ e.eaten_kind = "thorns"}

\* The pair that overlapped in a state-tick with one overlapping pair, as
\* <<thorn, other>> when a live thorn of moving_balls is one of the two.
ThornPairs ==
    {pr \in MovingBalls \X TotalBalls :
        /\ tick.detect.overlaps = {{pr[1].name, pr[2].name}}
        /\ pr[1].name # pr[2].name
        /\ pr[1].kind = "thorns"
        /\ ~pr[1].is_remove /\ ~pr[2].is_remove}

C24_SecondThornBranchDead ==
    Ticked =>
        /\ \A k \in DOMAIN tick.log :
              tick.log[k].eaten_kind = "thorns" =>
                  /\ tick.log[k].eater_kind = "clone"
                  /\ \A b \in thorns_balls : b.name # tick.log[k].eaten
        /\ \A n \in tick.spore_calls :
              \E b \in TotalBalls : b.name = n /\ b.kind = "spore"

\* Two live thorns overlapped in a state-tick, and deal_with_collision was
\* called with one as the moving ball and the other as the target.
C24_Witness ==
    /\ Ticked
    /\ \E pr \in MovingBalls \X TotalBalls :
           /\ {pr[1].name, pr[2].name} \in tick.detect.overlaps
           /\ pr[1].name # pr[2].name
           /\ pr[1].kind = "thorns" /\ pr[2].kind = "thorns"
           /\ ~pr[1].is_remove /\ ~pr[2].is_remove

\* The balls that stood twice in the total_balls of the last state-tick.
Duplicated ==
    {tick.detect.total[j].name : j \in
        {j \in DOMAIN tick.detect.total :
            \E k \in DOMAIN tick.detect.total :
                k # j /\ tick.detect.total[k].name = tick.detect.total[j].name}}

\* C25: in a state-tick without actions every live cell is in total_balls twice,
\* and still no ball is eaten twice (so no eater takes a ball's size twice),
\* no remove_balls is called twice for a ball, and the tick does not raise.
C25_DuplicatesHarmless ==
    (trace /\ ~tick.given /\ (tick.done \/ call.kind = "raised")) =>
        /\ tick.done
        /\ \A b \in TotalBalls : (b.kind = "clone" /\ ~b.is_remove) => b.name \in Duplicated
        /\ \A j, k \in DOMAIN tick.log : j # k => tick.log[j].eaten # tick.log[k].eaten

\* A cell that stood twice in total_balls was eaten at its first place, and
\* deal_with_collision was called again for its second place.
C25_Witness ==
    /\ Ticked /\ ~tick.given
    /\ \E k \in DOMAIN tick.log :
           /\ tick.log[k].eaten \in Duplicated
           /\ tick.log[k].eaten \in tick.skipped
           /\ tick.log[k].eaten # tick.log[k].moving

\* C26: last_time is a whole multiple of state_tick_duration: after k
\* state-ticks it is the float k * state_tick_duration.
C26_WholeMultiple ==
    food_clock.last_time = RoundDouble(food_clock.exact)

====
